---- MODULE Spec2Model ----
(***************************************************************************)
(* A model of www/Promise.js (Promise v0.2.2): the settle-once state       *)
(* machine of one promise (status, fate, queue), envoy/enlighten/chain,    *)
(* then/catch, the static combinators, and the host's setImmediate queue.  *)
(*                                                                         *)
(* The library code is written as operators that take the whole program   *)
(* state as a record `st` and return the state after the call, so that one *)
(* action is one whole host task (or one whole call made by user code),    *)
(* with every nested call it makes.                                        *)
(***************************************************************************)
EXTENDS Integers, Sequences, FiniteSets, TLC

VARIABLES
    status,   \* status[p]: the `status` variable of promise p (line 37)
    fate,     \* fate[p]: the `fate` variable of promise p
    queue,    \* queue[p]: the `queue` array of promise p
    func,     \* func[p]: the producer closure given to the constructor of p
    scope,    \* scope[p]: the local variables of Promise.all's producer
    tasks,    \* callbacks handed to window.setImmediate, not yet run
    log,      \* what has run so far: producers, handlers, direct settlements
    calls,    \* number of calls user code made to exposed resolver/rejector
    escaped   \* the last exception that left a call or a task, and what it left

vars == <<status, fate, queue, func, scope, tasks, log, calls, escaped>>

----------------------------------------------------------------------------
\* Bounds of the model.

MaxThen == 2      \* then/catch calls user code makes
MaxSettle == 2    \* calls user code makes to resolver/rejector functions it kept
MaxInputs == 2    \* promises user code has constructed in the scenarios with several
MaxList == 2      \* length of the iterable given to Promise.all and Promise.race

----------------------------------------------------------------------------
\* Status constants (lines 14, 19, 24).

PENDING == "PENDING"
RESOLVED == "RESOLVED"
REJECTED == "REJECTED"

----------------------------------------------------------------------------
\* JavaScript values.  t is the kind, v a number (the promise's index for a
\* promise, the number itself for a plain value), a the elements of an array.

Undefined == [t |-> "undefined", v |-> 0, a |-> <<>>]
Plain(n) == [t |-> "value", v |-> n, a |-> <<>>]
Ref(p) == [t |-> "promise", v |-> p, a |-> <<>>]
Thrown(n) == [t |-> "error", v |-> n, a |-> <<>>]
TypeError == [t |-> "TypeError", v |-> 0, a |-> <<>>]
RangeError == [t |-> "RangeError", v |-> 0, a |-> <<>>]
Array(s) == [t |-> "array", v |-> 0, a |-> s]
Hole == [t |-> "hole", v |-> 0, a |-> <<>>]
NoExc == [t |-> "none", v |-> 0, a |-> <<>>]

\* an object that is no Promise of this library and has a method
\* then(onResolved, onRejected), which calls onResolved(n) at once
Thenable(n) == [t |-> "thenable", v |-> n, a |-> <<>>]

\* `x instanceof Promise`
IsPromise(x) == x.t = "promise"

\* `x && typeof x.then === "function"`
IsThenable(x) == x.t \in {"promise", "thenable"}

\* JavaScript truthiness of x: undefined and the number 0 are falsy
Truthy(x) == ~(x.t = "undefined" \/ (x.t = "value" /\ x.v = 0))

----------------------------------------------------------------------------
\* Callables.  f is the kind of function, p the promise whose closure it
\* belongs to, i an index, v a value.

Fn(f, p, i, v) == [f |-> f, p |-> p, i |-> i, v |-> v]
Null == Fn("null", 0, 0, Undefined)
Absent == Fn("undefined", 0, 0, Undefined)
Resolver(p) == Fn("resolver", p, 0, Undefined)
Rejector(p) == Fn("rejector", p, 0, Undefined)
Returns(x) == Fn("returns", 0, 0, x)
Throws(x) == Fn("throws", 0, 0, x)
AllOnResolved(p, i) == Fn("allOnResolved", p, i, Undefined)
AllOnRejected(p) == Fn("allOnRejected", p, 0, Undefined)
RaceOnResolved(p) == Fn("raceOnResolved", p, 0, Undefined)
RaceOnRejected(p) == Fn("raceOnRejected", p, 0, Undefined)

\* an argument that is given and is no function (an object, a number)
NotCallable == Fn("object", 0, 0, Undefined)

\* `typeof g === "function"`
IsFunction(g) == g.f \notin {"null", "undefined", "object"}

----------------------------------------------------------------------------
\* Producer closures (the `func` argument of the constructor).

Producer(k, that, onResolved, onRejected, op, v, throws, list) ==
    [k |-> k, that |-> that, onResolved |-> onResolved, onRejected |-> onRejected,
     op |-> op, v |-> v, throws |-> throws, list |-> list]

\* a function written by the user: it calls resolver(v) or rejector(v) or
\* neither, then throws or returns; it keeps both functions for later calls.
UserFunc(op, v, throws) == Producer("user", 0, Null, Null, op, v, throws, <<>>)
ThenFunc(that, onResolved, onRejected) ==
    Producer("then", that, onResolved, onRejected, "none", Undefined, FALSE, <<>>)
CatchFunc(that, onRejected) ==
    Producer("catch", that, Null, onRejected, "none", Undefined, FALSE, <<>>)
ResolveFunc(v) == Producer("resolve", 0, Null, Null, "none", v, FALSE, <<>>)
RejectFunc(v) == Producer("reject", 0, Null, Null, "none", v, FALSE, <<>>)
AllFunc(list) == Producer("all", 0, Null, Null, "none", Undefined, FALSE, list)
RaceFunc(list) == Producer("race", 0, Null, Null, "none", Undefined, FALSE, list)

\* The local variables of the producer of Promise.all (lines 222-225) and of
\* the producer of Promise.race (line 260).
NoScope == [results |-> <<>>, remaining |-> 0, status |-> TRUE, found |-> FALSE]

----------------------------------------------------------------------------
\* Tasks given to window.setImmediate.

ProducerTask(p) ==
    [k |-> "producer", p |-> p, op |-> "none", args |-> <<>>, fn |-> Null, v |-> Undefined]
CallTask(p, args, operation) ==
    [k |-> "call", p |-> p, op |-> operation, args |-> <<args>>, fn |-> Null, v |-> Undefined]
DirectTask(fn, v) ==
    [k |-> "direct", p |-> fn.p, op |-> "none", args |-> <<>>, fn |-> fn, v |-> v]

RECURSIVE run(_, _)

\* A scheduler that calls the callback at once, inside the call that hands
\* it over, instead of deferring it.
setImmediateInline(st, task) == run(st, task)

\* window.setImmediate(callback, ...): the callback runs later, after the
\* callbacks submitted before it.
setImmediate(st, task) == [st EXCEPT !.tasks = Append(@, task)]

----------------------------------------------------------------------------
\* The program state as one record, with the registers of the running call:
\* frame (the innermost library function that is executing), fuel (stack
\* frames left), ret (the last return value), exc (the exception in flight).

State ==
    [status |-> status, fate |-> fate, queue |-> queue, func |-> func,
     scope |-> scope, tasks |-> tasks, log |-> log,
     frame |-> "", fuel |-> Len(status) + 1, ret |-> Undefined, exc |-> NoExc]

Throw(st, ex) == [st EXCEPT !.exc = ex]
Return(st, x) == [st EXCEPT !.ret = x]
Caught(st) == [st EXCEPT !.exc = NoExc]

Event(e, d, op, arg, inside) == [e |-> e, d |-> d, op |-> op, arg |-> arg, inside |-> inside]
Record(st, e, d, op, arg) == [st EXCEPT !.log = Append(@, Event(e, d, op, arg, st.frame))]

----------------------------------------------------------------------------
\* The library.  envoy, chain, resolver and rejector call each other (envoy
\* forwards to the chain of a nested promise, a settlement function runs
\* enlighten, which runs envoy), so they are declared recursive.

RECURSIVE envoy(_, _, _, _)
RECURSIVE chain(_, _, _)
RECURSIVE enlightenFrom(_, _, _, _, _)
RECURSIVE resolver(_, _, _)
RECURSIVE rejector(_, _, _)
RECURSIVE Call(_, _, _)

\* An envoy that settles the linked promise through link.resolve whatever
\* the operation is, when there is no handler.
envoyAlwaysResolves(st, p, args, operation) ==
    IF IsPromise(st.fate[p])
    THEN chain(st, st.fate[p].v, args)
    ELSE IF IsFunction(args[operation])
    THEN setImmediate(st, CallTask(p, args, operation))
    ELSE setImmediate(st, DirectTask(args.link.resolve, st.fate[p]))

\* An envoy that hands a fate that is a promise to the handler like any
\* other value.
envoyOpaque(st, p, args, operation) ==
    IF IsFunction(args[operation])
    THEN setImmediate(st, CallTask(p, args, operation))
    ELSE setImmediate(st, DirectTask(args.link[operation], st.fate[p]))

\* envoy(args, operation) of promise p (lines 60-74).
envoy(st, p, args, operation) ==
    IF IsPromise(st.fate[p])
    THEN chain(st, st.fate[p].v, args)
    ELSE IF IsFunction(args[operation])
    THEN setImmediate(st, CallTask(p, args, operation))
    ELSE setImmediate(st, DirectTask(args.link[operation], st.fate[p]))

\* A loop of enlighten that walks the queue from its end to its start.
RECURSIVE enlightenBackwards(_, _, _, _, _)
enlightenBackwards(st, p, operation, i, maxI) ==
    IF i > maxI \/ st.exc # NoExc
    THEN st
    ELSE enlightenBackwards(envoy(st, p, st.queue[p][maxI], operation),
                            p, operation, i, maxI - 1)

\* the loop of enlighten (lines 86-88); an exception thrown by envoy ends it.
enlightenFrom(st, p, operation, i, maxI) ==
    IF i > maxI \/ st.exc # NoExc
    THEN st
    ELSE enlightenFrom(envoy(st, p, st.queue[p][i], operation), p, operation, i + 1, maxI)

\* enlighten(operation) of promise p (lines 84-89).
enlighten(st, p, operation) == enlightenFrom(st, p, operation, 1, Len(st.queue[p]))

\* A resolver without the test of the status.
resolverUnguarded(st, p, value) ==
    LET s1 == [st EXCEPT !.fate[p] = value, !.status[p] = RESOLVED, !.frame = "resolver"]
        s2 == enlighten(s1, p, "resolve")
    IN  [s2 EXCEPT !.frame = st.frame]

\* A resolver that keeps the promise PENDING when the value is a promise, and
\* only notes the value.
resolverKeepsPending(st, p, value) ==
    IF st.status[p] = PENDING
    THEN IF IsPromise(value)
         THEN [st EXCEPT !.fate[p] = value]
         ELSE LET s1 == [st EXCEPT !.fate[p] = value, !.status[p] = RESOLVED,
                                   !.frame = "resolver"]
                  s2 == enlighten(s1, p, "resolve")
              IN  [s2 EXCEPT !.frame = st.frame]
    ELSE st

\* resolver(value) of promise p (lines 98-104).
resolver(st, p, value) ==
    IF st.status[p] = PENDING
    THEN LET s1 == [st EXCEPT !.fate[p] = value, !.status[p] = RESOLVED,
                              !.frame = "resolver"]
             s2 == enlighten(s1, p, "resolve")
         IN  [s2 EXCEPT !.frame = st.frame]
    ELSE st

\* A rejector without the test of the status.
rejectorUnguarded(st, p, reason) ==
    LET s1 == [st EXCEPT !.fate[p] = reason, !.status[p] = REJECTED, !.frame = "rejector"]
        s2 == enlighten(s1, p, "reject")
    IN  [s2 EXCEPT !.frame = st.frame]

\* rejector(reason) of promise p (lines 113-119).
rejector(st, p, reason) ==
    IF st.status[p] = PENDING
    THEN LET s1 == [st EXCEPT !.fate[p] = reason, !.status[p] = REJECTED,
                              !.frame = "rejector"]
             s2 == enlighten(s1, p, "reject")
         IN  [s2 EXCEPT !.frame = st.frame]
    ELSE st

\* A chain that keeps every reaction in the queue and, on a settled
\* promise, dispatches the whole queue again.
chainRequeues(st, p, args) ==
    LET s1 == [st EXCEPT !.queue[p] = Append(@, args), !.frame = "chain"]
        s2 == CASE st.status[p] = PENDING -> s1
                [] st.status[p] = RESOLVED -> enlighten(s1, p, "resolve")
                [] st.status[p] = REJECTED -> enlighten(s1, p, "reject")
    IN  [s2 EXCEPT !.frame = st.frame]

\* A chain that queues the reaction while the promise is PENDING and does
\* nothing with it once the promise is settled.
chainDropsLate(st, p, args) ==
    IF st.status[p] = PENDING
    THEN [st EXCEPT !.queue[p] = Append(@, args)]
    ELSE st

\* this.chain(args) of promise p (lines 134-164).  A call chain longer than
\* the number of promises goes round a cycle of fates and never returns: the
\* host ends it with a RangeError (stack overflow) when the stack is full.
chain(st, p, args) ==
    IF ~(args.resolve.f = "null" \/ IsFunction(args.resolve)) THEN Throw(st, TypeError)
    ELSE IF ~(args.reject.f = "null" \/ IsFunction(args.reject)) THEN Throw(st, TypeError)
    ELSE IF ~IsFunction(args.link.resolve) THEN Throw(st, TypeError)
    ELSE IF ~IsFunction(args.link.reject) THEN Throw(st, TypeError)
    ELSE IF ~IsPromise(args.link.promise) THEN Throw(st, TypeError)
    ELSE IF st.fuel = 0 THEN Throw(st, RangeError)
    ELSE LET s1 == [st EXCEPT !.frame = "chain", !.fuel = @ - 1]
             s2 == CASE st.status[p] = PENDING ->
                           [s1 EXCEPT !.queue[p] = Append(@, args)]
                    [] st.status[p] = RESOLVED -> envoy(s1, p, args, "resolve")
                    [] st.status[p] = REJECTED -> envoy(s1, p, args, "reject")
         IN  [s2 EXCEPT !.frame = st.frame, !.fuel = st.fuel]

\* A fulfilment handler of Promise.all that appends the value to the results
\* in the order the inputs fulfil (results.push(value)).
allOnResolvedPushes(st, c, index, value) ==
    IF st.scope[c].status
    THEN LET s1 == [st EXCEPT !.scope[c].results = Append(@, value),
                              !.scope[c].remaining = @ - 1]
         IN  IF s1.scope[c].remaining = 0
             THEN resolver(s1, c, Array(s1.scope[c].results))
             ELSE s1
    ELSE st

\* results[index] = value on a JavaScript array (index from 0): the array
\* grows to hold the index, the skipped positions are holes.
SetAt(s, index, x) ==
    IF index + 1 <= Len(s)
    THEN [s EXCEPT ![index + 1] = x]
    ELSE s \o [k \in 1..(index - Len(s)) |-> Hole] \o <<x>>

\* the fulfilment handler Promise.all gives to then (lines 233-240), for the
\* combinator promise c and the element at `index`.
allOnResolved(st, c, index, value) ==
    IF st.scope[c].status
    THEN LET s1 == [st EXCEPT !.scope[c].results = SetAt(@, index, value),
                              !.scope[c].remaining = @ - 1]
         IN  IF s1.scope[c].remaining = 0
             THEN resolver(s1, c, Array(s1.scope[c].results))
             ELSE s1
    ELSE st

\* the rejection handler Promise.all gives to then (lines 241-244).
allOnRejected(st, c, reason) ==
    rejector([st EXCEPT !.scope[c].status = FALSE], c, reason)

\* the fulfilment handler Promise.race gives to then (lines 262-267), for the
\* combinator promise c.
raceOnResolved(st, c, value) ==
    IF ~st.scope[c].found
    THEN resolver([st EXCEPT !.scope[c].found = TRUE], c, value)
    ELSE st

\* A rejection handler of Promise.race that calls onResolved.
raceOnRejectedResolves(st, c, reason) ==
    IF ~st.scope[c].found
    THEN resolver([st EXCEPT !.scope[c].found = TRUE], c, reason)
    ELSE st

\* the rejection handler Promise.race gives to then (lines 267-272).
raceOnRejected(st, c, reason) ==
    IF ~st.scope[c].found
    THEN rejector([st EXCEPT !.scope[c].found = TRUE], c, reason)
    ELSE st

\* Calling the function g with one argument.
Call(st, g, arg) ==
    CASE g.f = "resolver" -> Return(resolver(st, g.p, arg), Undefined)
      [] g.f = "rejector" -> Return(rejector(st, g.p, arg), Undefined)
      [] g.f = "returns" -> Return(st, g.v)
      [] g.f = "throws" -> Throw(st, g.v)
      [] g.f = "allOnResolved" -> Return(allOnResolved(st, g.p, g.i, arg), Undefined)
      [] g.f = "allOnRejected" -> Return(allOnRejected(st, g.p, arg), Undefined)
      [] g.f = "raceOnResolved" -> Return(raceOnResolved(st, g.p, arg), Undefined)
      [] g.f = "raceOnRejected" -> Return(raceOnRejected(st, g.p, arg), Undefined)
      [] OTHER -> Throw(st, TypeError)

----------------------------------------------------------------------------
\* new Promise(func) (lines 36-43 and 165): the new promise is PENDING and
\* its producer is handed to setImmediate.  The new promise is st.ret.
Promise(st, f) ==
    IF f.k = "notfunction"
    THEN Throw(st, TypeError)
    ELSE LET p == Len(st.status) + 1
             s1 == [st EXCEPT !.status = Append(@, PENDING),
                              !.fate = Append(@, Undefined),
                              !.queue = Append(@, <<>>),
                              !.func = Append(@, f),
                              !.scope = Append(@, NoScope),
                              !.ret = Ref(p),
                              !.frame = "Promise"]
             s2 == setImmediate(s1, ProducerTask(p))
         IN  [s2 EXCEPT !.frame = st.frame, !.ret = Ref(p)]

\* that.then(onResolved, onRejected) (lines 286-301).
then(st, that, onResolved, onRejected) == Promise(st, ThenFunc(that, onResolved, onRejected))

\* that.catch(onRejected) (lines 311-326).
catch(st, that, onRejected) == Promise(st, CatchFunc(that, onRejected))

\* Promise.resolve(value) (lines 184-192).
PromiseResolve(st, value) == Promise(st, ResolveFunc(value))

\* Promise.reject(reason) (lines 202-206).
PromiseReject(st, reason) == Promise(st, RejectFunc(reason))

\* Promise.all(iterable) (lines 220-221).
PromiseAll(st, iterable) == Promise(st, AllFunc(iterable))
PromiseRace(st, iterable) == Promise(st, RaceFunc(iterable))

----------------------------------------------------------------------------
\* The bodies of the producers.

\* A then that hands its arguments to chain as they are.
thenBodyUnchecked(st, p) ==
    LET f == st.func[p]
    IN  chain(st, f.that,
              [resolve |-> f.onResolved,
               reject |-> f.onRejected,
               link |-> [resolve |-> Resolver(p), reject |-> Rejector(p),
                         promise |-> Ref(p)]])

\* the function then gives to the constructor (lines 289-299); p is the
\* promise then returns.
thenBody(st, p) ==
    LET f == st.func[p]
    IN  chain(st, f.that,
              [resolve |-> IF IsFunction(f.onResolved) THEN f.onResolved ELSE Null,
               reject |-> IF IsFunction(f.onRejected) THEN f.onRejected ELSE Null,
               link |-> [resolve |-> Resolver(p), reject |-> Rejector(p),
                         promise |-> Ref(p)]])

\* the function catch gives to the constructor (lines 314-324).
catchBody(st, p) ==
    LET f == st.func[p]
    IN  chain(st, f.that,
              [resolve |-> Null,
               reject |-> IF IsFunction(f.onRejected) THEN f.onRejected ELSE Null,
               link |-> [resolve |-> Resolver(p), reject |-> Rejector(p),
                         promise |-> Ref(p)]])

\* value.then(onResolved, onRejected) on a thenable value: then of this
\* library for a promise, the object's own method otherwise.
thenOf(st, value, onResolved, onRejected) ==
    IF IsPromise(value)
    THEN then(st, value.v, onResolved, onRejected)
    ELSE Return(Call(st, onResolved, Plain(value.v)), Undefined)

\* A Promise.resolve that fulfils with whatever it is given.
resolveBodyOpaque(st, p) == resolver(st, p, st.func[p].v)

\* the function Promise.resolve gives to the constructor (lines 185-191).
resolveBody(st, p) ==
    LET value == st.func[p].v
    IN  IF Truthy(value) /\ IsThenable(value)
        THEN thenOf(st, value, Resolver(p), Rejector(p))
        ELSE resolver(st, p, value)

\* the function Promise.reject gives to the constructor (lines 203-205).
rejectBody(st, p) == rejector(st, p, st.func[p].v)

\* one round of iterable.forEach in Promise.all (lines 226-245), from the
\* element at `index` (from 0) on.  Calling then on a value that has none is
\* a TypeError, which ends the loop.
RECURSIVE allForEach(_, _, _)
allForEach(st, c, index) ==
    LET iterable == st.func[c].list
    IN  IF index >= Len(iterable) \/ st.exc # NoExc
        THEN st
        ELSE LET value == iterable[index + 1]
                 s1 == IF Truthy(value) /\ ~IsThenable(value)
                       THEN Return(st, value)
                       ELSE PromiseResolve(st, value)
                 s2 == IF IsPromise(s1.ret)
                       THEN then(s1, s1.ret.v, AllOnResolved(c, index), AllOnRejected(c))
                       ELSE Throw(s1, TypeError)
             IN  allForEach(s2, c, index + 1)

\* the function Promise.all gives to the constructor (lines 221-246).
allBody(st, c) ==
    LET s1 == [st EXCEPT !.scope[c] = [NoScope EXCEPT
                                           !.remaining = Len(st.func[c].list)]]
    IN  allForEach(s1, c, 0)

\* iterable.forEach in Promise.race (lines 261-273), from the element at
\* `index` (from 0) on: then is called on the element itself.
RECURSIVE raceForEach(_, _, _)
raceForEach(st, c, index) ==
    LET iterable == st.func[c].list
    IN  IF index >= Len(iterable) \/ st.exc # NoExc
        THEN st
        ELSE LET promise == iterable[index + 1]
                 s1 == IF IsThenable(promise)
                       THEN thenOf(st, promise, RaceOnResolved(c), RaceOnRejected(c))
                       ELSE Throw(st, TypeError)
             IN  raceForEach(s1, c, index + 1)

\* the function Promise.race gives to the constructor (lines 259-274).
raceBody(st, c) == raceForEach([st EXCEPT !.scope[c] = NoScope], c, 0)

\* a function of the user given to the constructor: it may call one of the
\* two settlement functions, and may then throw.
userBody(st, p) ==
    LET f == st.func[p]
        s1 == CASE f.op = "resolve" -> resolver(st, p, f.v)
                [] f.op = "reject" -> rejector(st, p, f.v)
                [] OTHER -> st
    IN  IF s1.exc = NoExc /\ f.throws THEN Throw(s1, Thrown(p)) ELSE s1

func_(st, p) ==
    CASE st.func[p].k = "user" -> userBody(st, p)
      [] st.func[p].k = "then" -> thenBody(st, p)
      [] st.func[p].k = "catch" -> catchBody(st, p)
      [] st.func[p].k = "resolve" -> resolveBody(st, p)
      [] st.func[p].k = "reject" -> rejectBody(st, p)
      [] st.func[p].k = "all" -> allBody(st, p)
      [] st.func[p].k = "race" -> raceBody(st, p)

----------------------------------------------------------------------------
\* The three callbacks the library hands to setImmediate.

\* A producer callback without the try/catch.
runProducerUncaught(st, p) == func_(Record(st, "producer", p, "none", Undefined), p)

\* lines 165-171: the producer runs, an exception it throws rejects p.
runProducer(st, p) ==
    LET s1 == func_(Record(st, "producer", p, "none", Undefined), p)
    IN  IF s1.exc # NoExc THEN rejector(Caught(s1), p, s1.exc) ELSE s1

\* A handler callback without the try/catch.
runCallUncaught(st, p, args, operation) ==
    LET x == st.fate[p]
        s1 == Call(Record(st, "handler", args.link.promise.v, operation, x),
                   args[operation], x)
    IN  IF s1.exc = NoExc THEN Call(s1, args.link.resolve, s1.ret) ELSE s1

\* lines 64-70: the handler runs with the fate of p, its return value resolves
\* the linked promise, an exception of either call rejects it.
runCall(st, p, args, operation) ==
    LET x == st.fate[p]
        s1 == Call(Record(st, "handler", args.link.promise.v, operation, x),
                   args[operation], x)
        s2 == IF s1.exc = NoExc THEN Call(s1, args.link.resolve, s1.ret) ELSE s1
    IN  IF s2.exc # NoExc THEN Call(Caught(s2), args.link.reject, s2.exc) ELSE s2

\* line 72: the settlement function of the linked promise runs with the fate.
runDirect(st, fn, x) ==
    Call(Record(st, "direct", fn.p, IF fn.f = "resolver" THEN "resolve" ELSE "reject", x),
         fn, x)

run(st, task) ==
    CASE task.k = "producer" -> runProducer(st, task.p)
      [] task.k = "call" -> runCall(st, task.p, task.args[1], task.op)
      [] task.k = "direct" -> runDirect(st, task.fn, task.v)

----------------------------------------------------------------------------
\* No promise yet, nothing scheduled, nothing run.
Empty ==
    [status |-> <<>>, fate |-> <<>>, queue |-> <<>>, func |-> <<>>, scope |-> <<>>,
     tasks |-> <<>>, log |-> <<>>,
     frame |-> "", fuel |-> 1, ret |-> Undefined, exc |-> NoExc]

NoEscape == [by |-> "none", exc |-> NoExc]

\* A state of the program as the state of the model.
Start(st) ==
    /\ status = st.status
    /\ fate = st.fate
    /\ queue = st.queue
    /\ func = st.func
    /\ scope = st.scope
    /\ tasks = st.tasks
    /\ log = st.log
    /\ calls = 0
    /\ escaped = NoEscape

\* The state after user code has constructed one promise:
\*     new Promise(function (resolver, rejector) { ... })
\* with a function that keeps the two settlement functions for later and
\* returns, or that calls resolver(0), rejector(0) or neither and then throws.
\* The promise is number 1.
Init ==
    \E op \in {"none", "resolve", "reject"}, throws \in BOOLEAN :
        /\ op = "none" \/ throws
        /\ Start(Promise(Empty, UserFunc(op, Plain(0), throws)))

\* The state a call or a task leaves behind.
Commit(st, by) ==
    /\ status' = st.status
    /\ fate' = st.fate
    /\ queue' = st.queue
    /\ func' = st.func
    /\ scope' = st.scope
    /\ tasks' = st.tasks
    /\ log' = st.log
    /\ escaped' = IF st.exc # NoExc THEN [by |-> by, exc |-> st.exc] ELSE escaped

Promises == 1..Len(status)
Made(k) == {p \in Promises : func[p].k \in k}
\* where in the log the producer of p ran
Runs(p) == {n \in 1..Len(log) : log[n].e = "producer" /\ log[n].d = p}
Ran(p) == Runs(p) # {}

\* The value user code settles with: a plain value that tells the call (the
\* n-th call passes n; the producer of promise 1 passes 0).
Fresh == Plain(calls + 1)

\* The handlers user code passes: none, one that returns, one that throws.
Result == [t |-> "result", v |-> 0, a |-> <<>>]
Handlers == {Absent, Returns(Result), Throws(Thrown(0))}

\* user code: that.then(onResolved, onRejected)
Then(that, onResolved, onRejected) ==
    /\ Cardinality(Made({"then", "catch"})) < MaxThen
    /\ calls' = calls
    /\ Commit(then(State, that, onResolved, onRejected), "then")

\* user code: that.catch(onRejected)
Catch(that, onRejected) ==
    /\ Cardinality(Made({"then", "catch"})) < MaxThen
    /\ calls' = calls
    /\ Commit(catch(State, that, onRejected), "catch")

\* user code (a timer or an event handler, say) calls a settlement function
\* that the producer of p received and kept.
Settle(p, op, v) ==
    /\ calls < MaxSettle
    /\ func[p].k = "user"
    /\ Ran(p)
    /\ calls' = calls + 1
    /\ Commit(Call(State, IF op = "resolve" THEN Resolver(p) ELSE Rejector(p), v), "settle")

\* the host runs the callback that was handed to setImmediate first.
RunTask ==
    /\ tasks # <<>>
    /\ calls' = calls
    /\ Commit(run([State EXCEPT !.tasks = Tail(tasks)], Head(tasks)), Head(tasks).k)

\* User code attaches reactions to any promise there is (then with any
\* fulfilment handler and a rejection handler that is absent or returns, catch
\* with a handler that returns or throws), settles promise 1 with plain
\* values, and the host runs the scheduled callbacks in submission order.
Next ==
    \/ \E that \in Promises, onResolved \in Handlers, onRejected \in {Absent, Returns(Result)} :
           Then(that, onResolved, onRejected)
    \/ \E that \in Promises, onRejected \in {Returns(Result), Throws(Thrown(0))} :
           Catch(that, onRejected)
    \/ \E p \in Promises, op \in {"resolve", "reject"} : Settle(p, op, Fresh)
    \/ RunTask

Spec == Init /\ [][Next]_vars

----------------------------------------------------------------------------
\* The combinator scenario: user code has constructed MaxInputs promises
\* whose producers keep the settlement functions, settles them later in any
\* order, and calls Promise.all once on a list of them.

RECURSIVE Construct(_, _)
Construct(st, n) ==
    IF n = 0 THEN st
    ELSE Promise(Construct(st, n - 1), UserFunc("none", Undefined, FALSE))

InitAll == Start(Construct(Empty, MaxInputs))

\* the lists of at most n inputs
RECURSIVE Lists(_)
Lists(n) ==
    IF n = 0 THEN {<<>>}
    ELSE LET shorter == Lists(n - 1)
         IN  shorter \cup {Append(l, Ref(q)) : l \in shorter, q \in 1..MaxInputs}

\* user code: Promise.all(iterable)
All(iterable) ==
    /\ Made({"all"}) = {}
    /\ calls' = calls
    /\ Commit(PromiseAll(State, iterable), "all")

NextAll ==
    \/ \E iterable \in Lists(MaxList) : All(iterable)
    \/ \E p \in Promises, op \in {"resolve", "reject"} : Settle(p, op, Fresh)
    \/ RunTask

SpecAll == InitAll /\ [][NextAll]_vars

----------------------------------------------------------------------------
\* What the properties talk about.

\* the promises that then or catch returned: one reaction each
Reactions == Made({"then", "catch"})

\* the promise a reaction was attached to
Source(d) == func[d].that

\* the handler the caller of then/catch passed for an operation
Handler(d, operation) ==
    IF operation = "resolve"
    THEN (IF func[d].k = "then" THEN func[d].onResolved ELSE Absent)
    ELSE func[d].onRejected

\* the operation a settled promise settled with
Operation(p) == IF status[p] = RESOLVED THEN "resolve" ELSE "reject"

IsDispatch(ev, d) == ev.e \in {"handler", "direct"} /\ ev.d = d
IsDispatchTask(task, d) ==
    \/ task.k = "call" /\ task.args[1].link.promise.v = d
    \/ task.k = "direct" /\ task.fn.p = d

\* where in the log the reaction of d was dispatched
Dispatches(d) == {n \in 1..Len(log) : IsDispatch(log[n], d)}

\* dispatches of d that ran or are scheduled, in a task queue and a log
Scheduled(tk, lg, d) ==
    Cardinality({n \in 1..Len(tk) : IsDispatchTask(tk[n], d)})
        + Cardinality({n \in 1..Len(lg) : IsDispatch(lg[n], d)})

\* the reactions in the queue of p
Queued(p) == {queue[p][i].link.promise.v : i \in 1..Len(queue[p])}

\* nothing is scheduled any more
Quiet == tasks = <<>>

----------------------------------------------------------------------------
\* C1.  Settlement is first-settle-wins: once the status of a promise is not
\* PENDING, no step changes its status or its fate, and no step (a further
\* call of its resolver or rejector among them) schedules another dispatch
\* of a reaction that is in its queue.
FirstSettleWins ==
    [][\A p \in Promises :
           status[p] # PENDING =>
               /\ status'[p] = status[p]
               /\ fate'[p] = fate[p]
               /\ \A d \in Queued(p) :
                      Scheduled(tasks', log', d) = Scheduled(tasks, log, d)]_vars

\* C1 witness: promise 1 was settled by the first call of user code, a
\* second call followed, and a reaction that was queued has run once.
SettledTwiceOver ==
    /\ calls = 2
    /\ func[1].op = "none"
    /\ status[1] # PENDING
    /\ fate[1] = Plain(1)
    /\ \E d \in Queued(1) : Cardinality(Dispatches(d)) = 1

\* C2.  Every reaction is dispatched exactly once: never are two dispatches
\* of it run or scheduled, and when nothing is scheduled any more and its
\* source has settled, it has been dispatched once (one handler call or one
\* direct settlement of the promise then/catch returned).
ExactlyOnce ==
    \A d \in Reactions :
        /\ Scheduled(tasks, log, d) <= 1
        /\ (Quiet /\ status[Source(d)] # PENDING /\ ~IsPromise(fate[Source(d)]))
               => Cardinality(Dispatches(d)) = 1

\* C2 witness: one reaction was attached while the source was PENDING, one
\* after it had settled, both have been dispatched, and user code has made
\* all its settlement calls.
OnceBeforeAndAfter ==
    \E d1 \in Reactions, d2 \in Reactions :
        /\ Source(d1) = 1 /\ Source(d2) = 1
        /\ d1 \in Queued(1) /\ d2 \notin Queued(1)
        /\ Dispatches(d1) # {} /\ Dispatches(d2) # {}
        /\ calls = MaxSettle

\* C3.  Nothing runs inline: a producer, a handler or a direct settlement
\* runs only in a step that is the scheduler running the first callback
\* handed to setImmediate, one per step, and never while a constructor, a
\* chain call or a settlement function is executing.
TaskEvent(task) ==
    CASE task.k = "producer" -> "producer"
      [] task.k = "call" -> "handler"
      [] task.k = "direct" -> "direct"

NothingInline ==
    [][log' # log =>
           /\ tasks # <<>>
           /\ Len(log') = Len(log) + 1
           /\ log'[Len(log')].e = TaskEvent(Head(tasks))
           /\ log'[Len(log')].d =
                  (IF Head(tasks).k = "call"
                   THEN Head(tasks).args[1].link.promise.v ELSE Head(tasks).p)
           /\ log'[Len(log')].inside = ""
           /\ \A n \in 1..Len(log) : log'[n] = log[n]]_vars

\* C3 witness: a reaction attached to an already settled promise has been
\* dispatched, with a handler and without one.
DispatchedAfterSettled ==
    \E d1 \in Reactions, d2 \in Reactions :
        /\ status[Source(d1)] # PENDING /\ d1 \notin Queued(Source(d1))
        /\ status[Source(d2)] # PENDING /\ d2 \notin Queued(Source(d2))
        /\ \E n \in Dispatches(d1) : log[n].e = "handler"
        /\ \E n \in Dispatches(d2) : log[n].e = "direct"

\* C4.  Reactions on the same promise are dispatched in attachment order:
\* then/catch number promises in call order, so of two reactions on one
\* source the later one is never dispatched unless the earlier one was
\* dispatched before it.
AttachmentOrder ==
    \A d1 \in Reactions, d2 \in Reactions :
        (Source(d1) = Source(d2) /\ d1 < d2) =>
            \A n \in Dispatches(d2) : \E m \in Dispatches(d1) : m < n

\* C4 witness: two reactions on promise 1, which settled between the two
\* attachments, have both been dispatched.
OrderedAcrossSettlement ==
    \E d1 \in Reactions, d2 \in Reactions :
        /\ Source(d1) = 1 /\ Source(d2) = 1 /\ d1 < d2
        /\ d1 \in Queued(1) /\ d2 \notin Queued(1)
        /\ Dispatches(d1) # {} /\ Dispatches(d2) # {}
        /\ func[1].op = "none"

\* C5.  then/catch with no handler for the operation the source settled with:
\* once the reaction is dispatched, the promise it returned has the status
\* and the fate of the source.
PassThrough ==
    \A d \in Reactions :
        (/\ Dispatches(d) # {}
         /\ ~IsPromise(fate[Source(d)])
         /\ ~IsFunction(Handler(d, Operation(Source(d)))))
            => /\ status[d] = status[Source(d)]
               /\ fate[d] = fate[Source(d)]

\* C5 witness: a rejected source, a then with a fulfilment handler only, and
\* the returned promise rejected with the same reason.
RejectionPassedThrough ==
    \E d \in Reactions :
        /\ status[Source(d)] = REJECTED
        /\ func[d].k = "then"
        /\ IsFunction(func[d].onResolved)
        /\ ~IsFunction(func[d].onRejected)
        /\ status[d] = REJECTED
        /\ fate[d] = fate[Source(d)]

\* C6.  With a handler for the operation the source settled with: the
\* dispatch is one call of that handler with the fate of the source; a
\* handler that returns fulfils the returned promise with its return value
\* (also when it is the rejection handler), a handler that throws rejects it
\* with the thrown value, and no thrown value leaves a call or a task.
HandlerOutcome ==
    /\ escaped.exc.t # "error"
    /\ \A d \in Reactions :
           LET h == Handler(d, Operation(Source(d)))
           IN  (/\ Dispatches(d) # {}
                /\ ~IsPromise(fate[Source(d)])
                /\ IsFunction(h))
                   => /\ \A n \in Dispatches(d) :
                             /\ log[n].e = "handler"
                             /\ log[n].op = Operation(Source(d))
                             /\ log[n].arg = fate[Source(d)]
                      /\ h.f = "returns" => (status[d] = RESOLVED /\ fate[d] = h.v)
                      /\ h.f = "throws" => (status[d] = REJECTED /\ fate[d] = h.v)

\* C6 witness: a rejection handler that returned and fulfilled its promise,
\* and a handler that threw and rejected its promise.
ReturnedAndThrown ==
    \E d1 \in Reactions, d2 \in Reactions :
        /\ status[Source(d1)] = REJECTED
        /\ Handler(d1, "reject").f = "returns"
        /\ status[d1] = RESOLVED /\ fate[d1] = Result
        /\ Handler(d2, Operation(Source(d2))).f = "throws"
        /\ status[Source(d2)] # PENDING
        /\ status[d2] = REJECTED /\ fate[d2] = Thrown(0)

\* C7.  The producer of a promise runs at most once, and has run once when
\* nothing is scheduled any more; a user function that throws before calling
\* a settlement function leaves the promise REJECTED with the thrown value,
\* one that throws after calling one leaves the promise as that call set it.
ProducerOnce ==
    \A p \in Promises :
        /\ Cardinality(Runs(p)) <= 1
        /\ Quiet => Cardinality(Runs(p)) = 1
        /\ (func[p].k = "user" /\ func[p].throws /\ Runs(p) # {}) =>
               CASE func[p].op = "none" ->
                        status[p] = REJECTED /\ fate[p] = Thrown(p)
                 [] func[p].op = "resolve" ->
                        status[p] = RESOLVED /\ fate[p] = func[p].v
                 [] func[p].op = "reject" ->
                        status[p] = REJECTED /\ fate[p] = func[p].v

\* C7 witness: the producer called resolver(0) and then threw, user code
\* called the settlement functions later, and the promise is RESOLVED with 0.
ThrownAfterSettling ==
    /\ func[1].k = "user" /\ func[1].op = "resolve" /\ func[1].throws
    /\ Runs(1) # {}
    /\ calls = MaxSettle
    /\ status[1] = RESOLVED /\ fate[1] = Plain(0)

----------------------------------------------------------------------------
\* Promise.all: what the properties talk about.

\* the promises Promise.all returned
Combinators == Made({"all"})

\* the promise that is element i (from 1) of the list given to combinator c
Input(c, i) == func[c].list[i].v

\* the promises that the then of line 233 returned for combinator c: their
\* reactions carry the two handlers of Promise.all
Hooks(c) == {d \in Made({"then"}) : func[d].onRejected = AllOnRejected(c)}

\* where in the log the rejection handler of combinator c ran
Rejections(c) ==
    {n \in 1..Len(log) :
        log[n].e = "handler" /\ log[n].op = "reject" /\ log[n].d \in Hooks(c)}

\* the reaction that carries the outcome of an input towards a combinator
\* (the then of line 187) is in the queue of the input: it was attached while
\* the input was PENDING
AttachedWhilePending(p) ==
    \E d \in Queued(p) : func[d].k = "then" /\ func[d].onResolved.f = "resolver"

Min(S) == CHOOSE x \in S : \A y \in S : x <= y

\* C8.  Promise.all([]) is fulfilled with an empty array once its producer has
\* run and nothing is scheduled any more.
EmptyAllFulfils ==
    \A c \in Combinators :
        (func[c].list = <<>> /\ Runs(c) # {} /\ Quiet) =>
            (status[c] = RESOLVED /\ fate[c] = Array(<<>>))

\* C9.  Promise.all over a non-empty list of promises: it is RESOLVED only
\* when every input is RESOLVED, and then its fate is the array of the fates
\* of the inputs in list order; and when every input is RESOLVED and nothing
\* is scheduled any more, it is RESOLVED.
AllInListOrder ==
    \A c \in Combinators :
        LET n == Len(func[c].list)
            fulfilled == \A i \in 1..n : status[Input(c, i)] = RESOLVED
        IN  n > 0 =>
                /\ status[c] = RESOLVED =>
                       /\ fulfilled
                       /\ fate[c] = Array([i \in 1..n |-> fate[Input(c, i)]])
                /\ (fulfilled /\ Runs(c) # {} /\ Quiet) => status[c] = RESOLVED

\* C9 witness: the list is <<1, 2>>, promise 2 fulfilled before promise 1,
\* and the combinator is fulfilled with the value of 1, then the value of 2.
FulfilledOutOfOrder ==
    \E c \in Combinators :
        /\ func[c].list = <<Ref(1), Ref(2)>>
        /\ status[c] = RESOLVED
        /\ fate[c] = Array(<<Plain(2), Plain(1)>>)

\* C10.  Promise.all rejects with the first rejection dispatched to it: as
\* soon as its rejection handler has run it is REJECTED with the reason that
\* handler got first, whatever the other inputs do before or after; it is
\* REJECTED only so; and when every input that rejected was still PENDING
\* when the combinator's reaction was attached to it, that reason is the one
\* of the input that rejected first in time (user code numbers its calls).
AllRejectsWithFirst ==
    \A c \in Combinators :
        LET n == Len(func[c].list)
            rejected == {i \in 1..n : status[Input(c, i)] = REJECTED}
        IN  /\ Rejections(c) # {} =>
                   /\ status[c] = REJECTED
                   /\ fate[c] = log[Min(Rejections(c))].arg
            /\ status[c] = REJECTED =>
                   /\ Rejections(c) # {}
                   /\ \E i \in rejected : fate[c] = fate[Input(c, i)]
                   /\ (\A i \in rejected : AttachedWhilePending(Input(c, i))) =>
                          \A i \in rejected : fate[c].v <= fate[Input(c, i)].v

\* C10 witness: the list is <<1, 2>>, promise 2 rejected, the combinator
\* rejected with its reason, promise 1 was fulfilled after that, and nothing
\* is scheduled any more.
RejectedThenIgnored ==
    \E c \in Combinators :
        /\ func[c].list = <<Ref(1), Ref(2)>>
        /\ status[2] = REJECTED /\ status[1] = RESOLVED
        /\ fate[2].v < fate[1].v
        /\ status[c] = REJECTED /\ fate[c] = fate[2]
        /\ Quiet

----------------------------------------------------------------------------
\* Promise.all over lists that hold plain values.

\* what user code puts in a list: an input promise, the number 0 (falsy) or
\* the number 1 (truthy)
Elements == {Ref(q) : q \in 1..MaxInputs} \cup {Plain(0), Plain(1)}

\* the lists of at most n elements
RECURSIVE MixedLists(_)
MixedLists(n) ==
    IF n = 0 THEN {<<>>}
    ELSE LET shorter == MixedLists(n - 1)
         IN  shorter \cup {Append(l, x) : l \in shorter, x \in Elements}

NextAllValues ==
    \/ \E iterable \in MixedLists(MaxList) : All(iterable)
    \/ \E p \in Promises, op \in {"resolve", "reject"} : Settle(p, op, Fresh)
    \/ RunTask

SpecAllValues == InitAll /\ [][NextAllValues]_vars

\* the value an element of a list stands for once it is fulfilled
ValueOf(x) == IF IsPromise(x) THEN fate[x.v] ELSE x

\* C11.  Promise.all treats a plain value in its list as an input that is
\* already fulfilled with that value: over a non-empty list of plain values
\* and promises, once its producer has run, every promise in the list is
\* RESOLVED and nothing is scheduled any more, it is RESOLVED with the array
\* of the values in list order.
AllOverPlainValues ==
    \A c \in Combinators :
        LET list == func[c].list
            n == Len(list)
        IN  (/\ n > 0
             /\ \A i \in 1..n : IsPromise(list[i]) => status[list[i].v] = RESOLVED
             /\ Runs(c) # {}
             /\ Quiet)
                => /\ status[c] = RESOLVED
                   /\ fate[c] = Array([i \in 1..n |-> ValueOf(list[i])])

----------------------------------------------------------------------------
\* Promise.race.

\* user code: Promise.race(iterable)
Race(iterable) ==
    /\ Made({"race"}) = {}
    /\ calls' = calls
    /\ Commit(PromiseRace(State, iterable), "race")

NextRace ==
    \/ \E iterable \in Lists(MaxList) : Race(iterable)
    \/ \E p \in Promises, op \in {"resolve", "reject"} : Settle(p, op, Fresh)
    \/ RunTask

SpecRace == InitAll /\ [][NextRace]_vars

\* the promises that the then of line 262 returned for the race promise c
RaceHooks(c) == {d \in Made({"then"}) : func[d].onRejected = RaceOnRejected(c)}

\* where in the log a handler of the race promise c ran
RaceEvents(c) == {n \in 1..Len(log) : log[n].e = "handler" /\ log[n].d \in RaceHooks(c)}

\* C12.  Promise.race settles with the operation and the outcome of the input
\* whose settlement is dispatched to it first: as soon as one of its handlers
\* has run it is settled with the operation and the argument of the first
\* such run, which are those of a settled input, and it stays so whatever
\* runs later; it is settled only so; and when its producer has run, some
\* input has settled and nothing is scheduled any more, it is settled, also
\* when another input is still PENDING.
RaceFirstDispatched ==
    \A c \in Made({"race"}) :
        LET n == Len(func[c].list)
            settled == {i \in 1..n : status[Input(c, i)] # PENDING}
        IN  /\ RaceEvents(c) # {} =>
                   LET first == log[Min(RaceEvents(c))]
                   IN  /\ status[c] = (IF first.op = "resolve" THEN RESOLVED ELSE REJECTED)
                       /\ fate[c] = first.arg
                       /\ \E i \in settled :
                              /\ status[Input(c, i)] = status[c]
                              /\ fate[Input(c, i)] = fate[c]
            /\ status[c] # PENDING => RaceEvents(c) # {}
            /\ (settled # {} /\ Runs(c) # {} /\ Quiet) => status[c] # PENDING

\* C12 witness: the list is <<1, 2>>, promise 2 was rejected and promise 1
\* never settled; the race promise is REJECTED with the reason of 2 and
\* nothing is scheduled any more.
RaceWonByTheSettled ==
    \E c \in Made({"race"}) :
        /\ func[c].list = <<Ref(1), Ref(2)>>
        /\ status[1] = PENDING /\ status[2] = REJECTED
        /\ status[c] = REJECTED /\ fate[c] = fate[2]
        /\ calls = MaxSettle
        /\ Quiet

----------------------------------------------------------------------------
\* Promise.resolve and Promise.reject.

\* what user code hands to Promise.resolve and Promise.reject: undefined, an
\* object without a then method or an input promise (Promise.resolve is also
\* given a thenable that is no Promise)
Given == {Undefined, Result} \cup {Ref(q) : q \in 1..MaxInputs}

\* the promises Promise.resolve and Promise.reject returned
Statics == Made({"resolve", "reject"})

\* user code: Promise.resolve(value)
StaticResolve(value) ==
    /\ Statics = {}
    /\ calls' = calls
    /\ Commit(PromiseResolve(State, value), "resolve")

\* user code: Promise.reject(reason)
StaticReject(reason) ==
    /\ Statics = {}
    /\ calls' = calls
    /\ Commit(PromiseReject(State, reason), "reject")

\* User code calls Promise.resolve or Promise.reject once, attaches reactions
\* to the promise it got, and settles the input promises with plain values.
NextStatic ==
    \/ \E value \in Given \cup {Thenable(0)} : StaticResolve(value)
    \/ \E reason \in Given : StaticReject(reason)
    \/ \E that \in Statics, onResolved \in {Absent, Returns(Result)} :
           Then(that, onResolved, Absent)
    \/ \E p \in Promises, op \in {"resolve", "reject"} : Settle(p, op, Fresh)
    \/ RunTask

SpecStatic == InitAll /\ [][NextStatic]_vars

\* C13.  Promise.resolve(x): when x is not thenable the returned promise is
\* RESOLVED with x once its producer has run; when x is a promise the
\* returned promise is PENDING as long as x is, is settled only with the
\* status and the fate of x, and is settled when x is, the producer has run
\* and nothing is scheduled any more; when x is a thenable that calls its
\* fulfilment callback, the returned promise is RESOLVED with that value.
ResolveAdopts ==
    \A r \in Made({"resolve"}) :
        LET x == func[r].v
        IN  /\ Runs(r) = {} => status[r] = PENDING
            /\ ~IsThenable(x) =>
                   (Runs(r) # {} => (status[r] = RESOLVED /\ fate[r] = x))
            /\ IsPromise(x) =>
                   /\ status[r] # PENDING =>
                          (status[r] = status[x.v] /\ fate[r] = fate[x.v])
                   /\ (status[x.v] # PENDING /\ Runs(r) # {} /\ Quiet) =>
                          status[r] # PENDING
            /\ x.t = "thenable" =>
                   (Runs(r) # {} => (status[r] = RESOLVED /\ fate[r] = Plain(x.v)))

\* C13 witness: Promise.resolve(promise 1) while 1 was PENDING; its producer
\* ran and attached to 1; then 1 was rejected and the returned promise is
\* REJECTED with the same reason.
AdoptedRejection ==
    \E r \in Made({"resolve"}) :
        /\ func[r].v = Ref(1)
        /\ AttachedWhilePending(1)
        /\ status[1] = REJECTED
        /\ status[r] = REJECTED /\ fate[r] = fate[1]

----------------------------------------------------------------------------
\* Handlers that are given and are not functions.

\* User code as in Next, with handler arguments that are objects instead of
\* functions.
NextHandlers ==
    \/ \E that \in Promises, onResolved \in {NotCallable, Returns(Result)},
          onRejected \in {NotCallable, Absent} :
           Then(that, onResolved, onRejected)
    \/ \E that \in Promises, onRejected \in {NotCallable, Returns(Result)} :
           Catch(that, onRejected)
    \/ \E p \in Promises, op \in {"resolve", "reject"} : Settle(p, op, Fresh)
    \/ RunTask

SpecHandlers == Init /\ [][NextHandlers]_vars

\* the then/catch call that returned d was given a handler that is no function
GivenNotCallable(d) ==
    \/ func[d].k = "then" /\ func[d].onResolved = NotCallable
    \/ func[d].onRejected = NotCallable

\* C14.  A then/catch call that is given a handler which is not callable
\* raises a TypeError at the call: the exception leaves the call, and the
\* reaction is never dispatched, so that the promise of the call is neither
\* rejected nor settled by pass-through.
NonCallableRaises ==
    \A d \in Reactions :
        GivenNotCallable(d) =>
            /\ escaped.by \in {"then", "catch"}
            /\ escaped.exc = TypeError
            /\ Dispatches(d) = {}
            /\ status[d] = PENDING

\* C14, as the code has it.  A handler that is given and is not callable
\* counts as absent: no exception leaves a then/catch call or a callback, no
\* promise is rejected with a TypeError, and once the reaction is dispatched
\* for the operation of that handler, it is one direct settlement and the
\* promise then/catch returned has the status and the fate of the source.
NonCallableIgnored ==
    /\ escaped = NoEscape
    /\ \A d \in Reactions :
           /\ fate[d] # TypeError
           /\ (/\ Dispatches(d) # {}
               /\ Handler(d, Operation(Source(d))) = NotCallable)
                  => /\ \A n \in Dispatches(d) : log[n].e = "direct"
                     /\ status[d] = status[Source(d)]
                     /\ fate[d] = fate[Source(d)]

\* C14 witness: then was given an object as fulfilment handler, the source was
\* fulfilled by a call of user code, and the returned promise is RESOLVED with
\* the same value.
NonCallablePassedThrough ==
    \E d \in Reactions :
        /\ func[d].k = "then" /\ func[d].onResolved = NotCallable
        /\ status[Source(d)] = RESOLVED /\ fate[Source(d)] = Plain(1)
        /\ status[d] = RESOLVED /\ fate[d] = Plain(1)

----------------------------------------------------------------------------
\* Promises settled with promises.

\* the input promise after p, the first one after the last
Other(p) == (p % MaxInputs) + 1

\* User code settles the input promises: with plain values, or it fulfils one
\* with itself or with the input promise after it.  Its fulfilment handlers
\* return input promise 1.
NextNested ==
    \/ \E that \in Promises : Then(that, Returns(Ref(1)), Absent)
    \/ \E p \in Promises, op \in {"resolve", "reject"} : Settle(p, op, Fresh)
    \/ \E p \in Promises : \E q \in {p, Other(p)} : Settle(p, "resolve", Ref(q))
    \/ RunTask

SpecNested == InitAll /\ [][NextNested]_vars

\* The promise at the end of the fates of p: p itself when its fate is no
\* promise, the end of its fate otherwise; 0 when a promise on the way is
\* PENDING or when the way has more than n steps (the fates form a cycle).
RECURSIVE EndFrom(_, _)
EndFrom(p, n) ==
    IF n = 0 \/ status[p] = PENDING THEN 0
    ELSE IF IsPromise(fate[p]) THEN EndFrom(fate[p].v, n - 1)
    ELSE p

End(p) == EndFrom(p, Len(status))

\* C15.  Nested promises are forwarded: no handler and no direct settlement
\* ever runs with a promise as its argument; a reaction on a promise that is
\* RESOLVED with a promise is dispatched only with the operation and the fate
\* of the promise at the end of the fates, however many promises lie between;
\* and it has been dispatched when that end is settled, the reaction has been
\* attached and nothing is scheduled any more.
NestedForwarding ==
    /\ \A n \in 1..Len(log) :
           log[n].e \in {"handler", "direct"} => ~IsPromise(log[n].arg)
    /\ \A d \in Reactions :
           LET F == Source(d)
           IN  (status[F] = RESOLVED /\ IsPromise(fate[F])) =>
                   /\ \A n \in Dispatches(d) :
                          /\ End(F) # 0
                          /\ log[n].op = Operation(End(F))
                          /\ log[n].arg = fate[End(F)]
                   /\ (End(F) # 0 /\ Runs(d) # {} /\ Quiet) => Dispatches(d) # {}

\* C15 witness: a handler returned promise 1, so its promise d is RESOLVED
\* with promise 1, which is RESOLVED with promise 2, which has a plain fate;
\* the reaction on d has been dispatched with that fate.
ForwardedTwoDeep ==
    \E d \in Reactions, e \in Reactions :
        /\ Source(e) = d
        /\ status[d] = RESOLVED /\ fate[d] = Ref(1)
        /\ status[1] = RESOLVED /\ fate[1] = Ref(2)
        /\ status[2] # PENDING /\ ~IsPromise(fate[2])
        /\ \E n \in Dispatches(e) : log[n].arg = fate[2]

----------------------------------------------------------------------------
\* Promises fulfilled with thenables that are no Promise.

\* User code as in Next, with a thenable as the value of a settlement call
\* and as the return value of a fulfilment handler.
NextThenable ==
    \/ \E that \in Promises, x \in {Result, Thenable(0)} :
           Then(that, Returns(x), Absent)
    \/ \E p \in Promises, op \in {"resolve", "reject"}, v \in {Fresh, Thenable(0)} :
           Settle(p, op, v)
    \/ RunTask

SpecThenable == Init /\ [][NextThenable]_vars

\* C16.  A thenable that is no Promise is forwarded like a promise: a
\* reaction on a promise that is RESOLVED with a thenable (the return value
\* of a then handler, say) is dispatched only with the outcome of the
\* thenable, here a fulfilment with the value the thenable hands to its
\* callback, and never with the thenable itself as the value.
ThenablesForwarded ==
    \A d \in Reactions :
        LET F == Source(d)
        IN  (status[F] = RESOLVED /\ fate[F].t = "thenable") =>
                \A n \in Dispatches(d) :
                    /\ log[n].op = "resolve"
                    /\ log[n].arg = Plain(fate[F].v)

\* C17.  Promise.reject(r) rejects with r whatever r is, a promise included:
\* the returned promise is never RESOLVED, every reaction on it is dispatched
\* only as a rejection with r itself as the reason and never by a call of
\* its fulfilment handler, and a promise then returned for it without a
\* rejection handler is never RESOLVED.
RejectKeepsReason ==
    \A r \in Made({"reject"}) :
        /\ status[r] # RESOLVED
        /\ \A d \in Reactions :
               Source(d) = r =>
                   /\ \A n \in Dispatches(d) :
                          /\ log[n].op = "reject"
                          /\ log[n].arg = func[r].v
                   /\ ~IsFunction(func[d].onRejected) => status[d] # RESOLVED

\* p is RESOLVED with a promise that is still PENDING
Owner(p) == status[p] = RESOLVED /\ IsPromise(fate[p]) /\ status[fate[p].v] = PENDING

\* the reactions on p are held by the promise that is the fate of p: none has
\* run or is scheduled, and each one that has been attached is in the queue
\* of that promise
Held(p) ==
    \A d \in Reactions :
        Source(d) = p =>
            /\ Scheduled(tasks, log, d) = 0
            /\ Runs(d) # {} => d \in Queued(fate[p].v)

\* C18.  A promise fulfilled with a promise N that is still PENDING is
\* RESOLVED at that call: a fate that is a promise is never the fate of a
\* PENDING promise.  While N is PENDING no step (a further call of the
\* resolver or the rejector of the owner among them) changes the status or
\* the fate of the owner, and the reactions on the owner are held by N
\* without being dispatched.
HeldUntilNestedSettles ==
    [][\A p \in 1..Len(status') :
           /\ IsPromise(fate'[p]) => status'[p] # PENDING
           /\ Owner(p)' => Held(p)'
           /\ (p \in Promises /\ Owner(p)) =>
                  (status'[p] = status[p] /\ fate'[p] = fate[p])]_vars

\* C18 witness: promise 1 was fulfilled with promise 2 by the first call of
\* user code, the second call was made, promise 2 is still PENDING, and a
\* reaction attached to promise 1 before the first call waits in the queue of
\* promise 2.
OwnerWaitsForNested ==
    /\ Owner(1) /\ fate[1] = Ref(2)
    /\ calls = MaxSettle
    /\ Quiet
    /\ \E d \in Reactions : Source(d) = 1 /\ d \in Queued(1) /\ d \in Queued(2)

----------------------------------------------------------------------------
\* A host that runs every callback handed to setImmediate: the first one in
\* the queue is run at some time, whatever user code does meanwhile.  User
\* code attaches reactions with then and with catch and settles promise 1.
NextFair ==
    \/ \E that \in Promises : Then(that, Returns(Result), Absent)
    \/ \E that \in Promises : Catch(that, Returns(Result))
    \/ \E p \in Promises, op \in {"resolve", "reject"} : Settle(p, op, Fresh)
    \/ RunTask

FairSpec == Init /\ [][NextFair]_vars /\ WF_vars(RunTask)

\* C19.  Under a host that runs every callback: once the source of a reaction
\* is settled with a fate that is no promise, whether then/catch was called
\* before or after that, the reaction is dispatched at some time and the
\* promise then/catch returned leaves PENDING.
DispatchedEventually ==
    \A d \in 1..(MaxThen + 1) :
        (/\ d \in Reactions
         /\ status[Source(d)] # PENDING
         /\ ~IsPromise(fate[Source(d)]))
            ~> (Dispatches(d) # {} /\ status[d] # PENDING)

\* C19 witness: promise 1 was settled by a call of user code, with one
\* reaction attached before the call and one after it; both have been
\* dispatched, both returned promises are settled and no callback is left.
BothSettledDownstream ==
    \E d1 \in Reactions, d2 \in Reactions :
        /\ func[1].op = "none" /\ fate[1] = Plain(1)
        /\ Source(d1) = 1 /\ Source(d2) = 1
        /\ d1 \in Queued(1) /\ d2 \notin Queued(1)
        /\ Dispatches(d1) # {} /\ Dispatches(d2) # {}
        /\ status[d1] # PENDING /\ status[d2] # PENDING
        /\ Quiet

----------------------------------------------------------------------------
\* Cycles of fates.

\* User code as in NextNested, with fulfilment handlers that return input
\* promise 1 or the very promise their then call returned.
NextCycle ==
    \/ \E that \in Promises, q \in {1, Len(status) + 1} :
           Then(that, Returns(Ref(q)), Absent)
    \/ \E p \in Promises, op \in {"resolve", "reject"} : Settle(p, op, Fresh)
    \/ \E p \in Promises : \E q \in {p, Other(p)} : Settle(p, "resolve", Ref(q))
    \/ RunTask

SpecCycle == InitAll /\ [][NextCycle]_vars

\* envoy and chain go on for n more promises from p: p is settled with a
\* promise, and so on; with n the number of promises, they come back to a
\* promise they left and go round for ever.
RECURSIVE LoopsFrom(_, _)
LoopsFrom(p, n) ==
    /\ status[p] # PENDING
    /\ IsPromise(fate[p])
    /\ (n = 0 \/ LoopsFrom(fate[p].v, n - 1))

Loops(p) == LoopsFrom(p, Len(status))

\* C20.  Dispatching a reaction terminates: from no promise do the fates lead
\* back to a promise on the way, whatever user code settles a promise with
\* and whatever its handlers return, and no call of chain ever ends with the
\* RangeError of a full stack, neither leaving a call of user code nor
\* becoming the fate of a promise.
DispatchTerminates ==
    /\ escaped.exc # RangeError
    /\ \A p \in Promises : ~Loops(p) /\ fate[p] # RangeError

====
